---- MODULE Spec2Model ----
(***************************************************************************)
(* Model of withdrawMinipool (rocketpool-cli/minipool/withdraw.go): the    *)
(* withdrawals-enabled gate, the concurrent fan-out of one status query    *)
(* per minipool address over unbuffered channels, the in-order fan-in and  *)
(* filter, the operator's selection, and the sequential withdrawal loop    *)
(* that accumulates per-address errors.                                    *)
(*                                                                         *)
(* Strings that the code inspects (the operator's response, the menu       *)
(* options) are sequences of one-character strings.  Output lines, error   *)
(* lines and addresses are pairs <<text, n>>.                              *)
(***************************************************************************)
EXTENDS Integers, Sequences, FiniteSets, TLC

\* Largest number of minipool addresses the node owns in the model.
MaxN == 2

\* Largest number of responses the prompt rejects before it accepts one.
MaxRejects == 1

\* Largest number of withdrawable minipools in the menu of the selection
\* specification (two-digit indices included).
MaxMenu == 11

VARIABLES
    pc,                         \* position of withdrawMinipool
    minipoolAddresses,          \* result of node.GetMinipoolAddresses
    task,                       \* the status goroutines, one per address
    mi,                         \* loop index (1-based) of the current loop
    received,                   \* the nodeStatus values received, in order of receipt
    withdrawableMinipools,      \* the filtered statuses
    response,                   \* the string returned by cliutils.Prompt
    withdrawMinipoolAddresses,  \* the resolved addresses
    withdrawErrors,             \* the accumulated error lines
    output,                     \* lines written to p.Output
    calls,                      \* collaborator calls of the withdrawal loop, in order
    result                      \* return value of withdrawMinipool

vars == <<pc, minipoolAddresses, task, mi, received, withdrawableMinipools, response,
          withdrawMinipoolAddresses, withdrawErrors, output, calls, result>>

----------------------------------------------------------------------------
\* Values

NoAddr == <<"none", 0>>

\* The address of the i-th minipool of the node.
Address(i) == <<"minipool", i>>

\* minipool.INITIALIZED, minipool.WITHDRAWN, minipool.TIMED_OUT and one
\* status that is none of them.
INITIALIZED == "Initialized"
STAKING == "Staking"
WITHDRAWN == "Withdrawn"
TIMED_OUT == "TimedOut"

StatusValues == {INITIALIZED, STAKING, WITHDRAWN, TIMED_OUT}

\* A *minipool.NodeStatus as returned by minipool.GetNodeStatus for address a.
NodeStatus(a, s, d) == [Address |-> a, Status |-> s, DepositExists |-> d]

NoStatus == NodeStatus(NoAddr, "none", FALSE)

\* Lines
Line(text, a) == <<text, a>>

MsgDisabled == Line("Node withdrawals are currently disabled in Rocket Pool", NoAddr)
MsgNoneAvailable == Line("No minipools are currently available for withdrawal", NoAddr)
MsgNoneToWithdraw == Line("No minipools to withdraw", NoAddr)
MsgPrompt == Line("Please select a minipool to withdraw from by entering a number, or enter 'A' for all (excluding initialized):", NoAddr)
MsgIncorrect == Line("Please enter a minipool number or 'A' for all (excluding initialized)", NoAddr)
MsgWithdrawing(a) == Line("Withdrawing deposit from minipool", a)
MsgSuccess(a) == Line("Successfully withdrew deposit from minipool", a)

ErrHeader == Line("Error withdrawing deposits from one or more minipools:", NoAddr)
ErrTransactor(a) == Line("Error creating transactor for minipool", a)
ErrWithdraw(a) == Line("Error withdrawing deposit from minipool", a)
ErrEvent(a) == Line("Error retrieving node deposit withdrawal event for minipool", a)
ErrNoEvent(a) == Line("Could not retrieve node deposit withdrawal event for minipool", a)
ErrAllowed == Line("Error checking node withdrawals enabled status", NoAddr)
ErrAddresses == Line("Error getting minipool addresses", NoAddr)
ErrStatus(a) == Line("Error getting minipool node status", a)

\* Return values: still running, nil, or an error made of lines.
Running == [ret |-> "running", err |-> <<>>]
Nil == [ret |-> "nil", err |-> <<>>]
Error(lines) == [ret |-> "error", err |-> lines]

Panic == [ret |-> "panic", err |-> <<>>]

----------------------------------------------------------------------------
\* Strings: sequences of one-character strings

DigitChars == <<"0", "1", "2", "3", "4", "5", "6", "7", "8", "9">>

IsDigit(c) == \E d \in 1..Len(DigitChars) : DigitChars[d] = c

DigitValue(c) == (CHOOSE d \in 1..Len(DigitChars) : DigitChars[d] = c) - 1

\* strconv.Itoa for n >= 0: the decimal digits of n, most significant first.
RECURSIVE Itoa(_)
Itoa(n) ==
    IF n < Len(DigitChars)
    THEN <<DigitChars[n + 1]>>
    ELSE Itoa(n \div Len(DigitChars)) \o <<DigitChars[(n % Len(DigitChars)) + 1]>>

\* The value of a sequence of digits.
RECURSIVE DigitsValue(_)
DigitsValue(s) ==
    IF Len(s) = 0
    THEN 0
    ELSE DigitsValue(SubSeq(s, 1, Len(s) - 1)) * Len(DigitChars) + DigitValue(s[Len(s)])

AllDigits(s) == Len(s) > 0 /\ \A i \in 1..Len(s) : IsDigit(s[i])

\* strconv.Atoi with the error discarded (index, _ := strconv.Atoi(response)):
\* an optional sign and decimal digits give the number, anything else gives 0.
Atoi(s) ==
    IF AllDigits(s) THEN DigitsValue(s)
    ELSE IF Len(s) > 1 /\ s[1] = "+" /\ AllDigits(Tail(s)) THEN DigitsValue(Tail(s))
    ELSE IF Len(s) > 1 /\ s[1] = "-" /\ AllDigits(Tail(s)) THEN 0 - DigitsValue(Tail(s))
    ELSE 0

ToLowerChar(c) ==
    CASE c = "A" -> "a"
      [] c = "L" -> "l"
      [] c = "B" -> "b"
      [] OTHER -> c

\* strings.ToLower
ToLower(s) == [i \in 1..Len(s) |-> ToLowerChar(s[i])]

----------------------------------------------------------------------------
\* Selection (pure parts)

\* A variant of the filter that does not look at DepositExists.
IsWithdrawableIgnoringDeposit(nodeStatus) ==
    nodeStatus.Status \in {INITIALIZED, WITHDRAWN, TIMED_OUT}

\* A variant of the filter that leaves out the initialized minipools.
IsWithdrawableWrongState(nodeStatus) ==
    /\ nodeStatus.Status \in {WITHDRAWN, TIMED_OUT}
    /\ nodeStatus.DepositExists

\* The condition of the filter in the receive loop.
IsWithdrawable(nodeStatus) ==
    /\ nodeStatus.Status \in {INITIALIZED, WITHDRAWN, TIMED_OUT}
    /\ nodeStatus.DepositExists

\* A variant of the options that numbers the menu from 0.
OptionsFromZero(withdrawable) == {Itoa(k - 1) : k \in 1..Len(withdrawable)}

\* options: strconv.Itoa(mi + 1) for each withdrawable minipool.
Options(withdrawable) == {Itoa(k) : k \in 1..Len(withdrawable)}

\* The alternatives of the pattern: strings.Join(options, "|") of no options
\* is the empty string, which leaves one empty alternative.
Alternatives(withdrawable) ==
    (IF Len(withdrawable) = 0 THEN {<<>>} ELSE Options(withdrawable))
        \cup {<<"a">>, <<"a", "l", "l">>}

\* A variant of the pattern without the anchors ^ and $: some part of r matches.
MatchesPatternUnanchored(withdrawable, r) ==
    \E alt \in Alternatives(withdrawable) :
        \E from \in 1..(Len(r) + 1) :
            /\ from + Len(alt) - 1 <= Len(r)
            /\ ToLower(SubSeq(r, from, from + Len(alt) - 1)) = ToLower(alt)

\* The validation pattern "(?i)^(<options joined by |>|a|all)$" applied to r.
MatchesPattern(withdrawable, r) ==
    \E alt \in Alternatives(withdrawable) : ToLower(r) = ToLower(alt)

AddressesOf(statuses) == [i \in 1..Len(statuses) |-> statuses[i].Address]

NotInitialized(minipoolStatus) == minipoolStatus.Status # INITIALIZED

\* A variant of the all branch that keeps the initialized minipools.
AllAddressesUnfiltered(withdrawable) == AddressesOf(withdrawable)

\* The all branch: every withdrawable minipool that is not initialized.
AllAddresses(withdrawable) == AddressesOf(SelectSeq(withdrawable, NotInitialized))

\* A variant of the numeric branch that indexes with index instead of index - 1.
IndexAddressOffByOne(withdrawable, r) ==
    <<withdrawable[IF Atoi(r) < Len(withdrawable) THEN Atoi(r) + 1 ELSE 1].Address>>

\* The numeric branch: withdrawableMinipools[index - 1] (0-based in the code).
IndexAddress(withdrawable, r) == <<withdrawable[Atoi(r)].Address>>

IsAllResponse(r) == ToLower(SubSeq(r, 1, 1)) = <<"a">>

\* response[:1] of an empty string and an index outside the slice both panic.
SelectionPanics(withdrawable, r) ==
    \/ Len(r) = 0
    \/ ~IsAllResponse(r) /\ Atoi(r) \notin 1..Len(withdrawable)

SelectAddresses(withdrawable, r) ==
    IF IsAllResponse(r)
    THEN AllAddresses(withdrawable)
    ELSE IndexAddress(withdrawable, r)

\* Responses the operator may type.
Responses ==
    {Itoa(k) : k \in 0..(MaxN + 1)} \cup {Itoa(k) : k \in 0..(MaxMenu + 1)} \cup
    { <<>>, <<"a">>, <<"A">>, <<"a", "l", "l">>, <<"A", "L", "L">>,
      <<"a", "l">>, <<"B">>, <<"0", "1">>, <<"1", "a">>, <<"a", "1">>, <<"-", "1">> }

NoResponse == <<"?">>

----------------------------------------------------------------------------
\* State

N == Len(minipoolAddresses)

withdrawMinipoolCount == Len(withdrawMinipoolAddresses)

\* calls records every collaborator call of the main flow with its result;
\* the status queries of the goroutines are recorded in task.

\* A status goroutine: st is "run" while minipool.GetNodeStatus is in flight,
\* "sendOk" / "sendErr" while it is blocked sending on its own status channel /
\* on the shared error channel, "done" once its send was received.
TaskRun == [st |-> "run", val |-> NoStatus, err |-> NoAddr]

Init ==
    /\ pc = "checkAllowed"
    /\ minipoolAddresses = <<>>
    /\ task = <<>>
    /\ mi = 1
    /\ received = <<>>
    /\ withdrawableMinipools = <<>>
    /\ response = NoResponse
    /\ withdrawMinipoolAddresses = <<>>
    /\ withdrawErrors = <<>>
    /\ output = <<>>
    /\ calls = <<>>
    /\ result = Running

\* return: the function's result is set and it takes no further step.
Return(r) ==
    /\ result' = r
    /\ pc' = "done"

----------------------------------------------------------------------------
\* Discovery phase

\* A collaborator call of the main flow and what it returned.
GlobalCall(op, res) == [op |-> op, addr |-> NoAddr, res |-> res]

\* A variant that prints the message and goes on when withdrawals are disabled.
CheckWithdrawalsAllowedNoReturn ==
    /\ pc = "checkAllowed"
    /\ \E r \in {"error", "false", "true"} :
         /\ calls' = Append(calls, GlobalCall("getWithdrawalAllowed", r))
         /\ CASE r = "error" ->
                  /\ Return(Error(<<ErrAllowed>>))
                  /\ UNCHANGED output
             [] r = "false" ->
                  /\ output' = Append(output, MsgDisabled)
                  /\ pc' = "getAddresses"
                  /\ UNCHANGED result
             [] OTHER ->
                  /\ pc' = "getAddresses"
                  /\ UNCHANGED <<output, result>>
    /\ UNCHANGED <<minipoolAddresses, task, mi, received, withdrawableMinipools, response,
                   withdrawMinipoolAddresses, withdrawErrors>>

\* Check withdrawals are allowed.
CheckWithdrawalsAllowed ==
    /\ pc = "checkAllowed"
    /\ \E r \in {"error", "false", "true"} :
         /\ calls' = Append(calls, GlobalCall("getWithdrawalAllowed", r))
         /\ CASE r = "error" ->
                  /\ Return(Error(<<ErrAllowed>>))
                  /\ UNCHANGED output
             [] r = "false" ->
                  /\ output' = Append(output, MsgDisabled)
                  /\ Return(Nil)
             [] OTHER ->
                  /\ pc' = "getAddresses"
                  /\ UNCHANGED <<output, result>>
    /\ UNCHANGED <<minipoolAddresses, task, mi, received, withdrawableMinipools, response,
                   withdrawMinipoolAddresses, withdrawErrors>>

\* Get minipool addresses.
GetMinipoolAddresses ==
    /\ pc = "getAddresses"
    /\ \/ /\ calls' = Append(calls, GlobalCall("getMinipoolAddresses", "error"))
          /\ Return(Error(<<ErrAddresses>>))
          /\ UNCHANGED minipoolAddresses
       \/ /\ calls' = Append(calls, GlobalCall("getMinipoolAddresses", "ok"))
          /\ \E n \in 0..MaxN : minipoolAddresses' = [i \in 1..n |-> Address(i)]
          /\ pc' = "launch"
          /\ UNCHANGED result
    /\ UNCHANGED <<task, mi, received, withdrawableMinipools, response,
                   withdrawMinipoolAddresses, withdrawErrors, output>>

\* Make the channels and start one goroutine per address.
LaunchStatusTasks ==
    /\ pc = "launch"
    /\ task' = [i \in 1..N |-> TaskRun]
    /\ withdrawableMinipools' = <<>>
    /\ mi' = 1
    /\ pc' = "collect"
    /\ UNCHANGED <<minipoolAddresses, received, response, withdrawMinipoolAddresses,
                   withdrawErrors, output, calls, result>>

\* A variant in which a goroutine whose query failed returns without sending.
TaskQuerySilentOnError(i) ==
    /\ task[i].st = "run"
    /\ \/ task' = [task EXCEPT ![i] = [st |-> "done", val |-> NoStatus,
                                       err |-> ErrStatus(minipoolAddresses[i])]]
       \/ \E s \in StatusValues, d \in BOOLEAN :
            task' = [task EXCEPT ![i] = [st |-> "sendOk",
                                         val |-> NodeStatus(minipoolAddresses[i], s, d),
                                         err |-> NoAddr]]
    /\ UNCHANGED <<pc, minipoolAddresses, mi, received, withdrawableMinipools, response,
                   withdrawMinipoolAddresses, withdrawErrors, output, calls, result>>

\* Goroutine i: minipool.GetNodeStatus returns; the goroutine then blocks on
\* the send of the status or of the error.
TaskQuery(i) ==
    /\ task[i].st = "run"
    /\ \/ task' = [task EXCEPT ![i] = [st |-> "sendErr", val |-> NoStatus,
                                       err |-> ErrStatus(minipoolAddresses[i])]]
       \/ \E s \in StatusValues, d \in BOOLEAN :
            task' = [task EXCEPT ![i] = [st |-> "sendOk",
                                         val |-> NodeStatus(minipoolAddresses[i], s, d),
                                         err |-> NoAddr]]
    /\ UNCHANGED <<pc, minipoolAddresses, mi, received, withdrawableMinipools, response,
                   withdrawMinipoolAddresses, withdrawErrors, output, calls, result>>

\* A variant that receives from whichever status channel is ready.
AnyStatusChannel(m) == DOMAIN task

\* The status channels the select of iteration m receives from.

StatusChannels(m) == {m}

\* case nodeStatus := <-nodeStatusChannel[mi]
ReceiveStatus ==
    /\ pc = "collect"
    /\ mi <= N
    /\ \E j \in StatusChannels(mi) :
         /\ task[j].st = "sendOk"
         /\ received' = Append(received, task[j].val)
         /\ withdrawableMinipools' =
              IF IsWithdrawable(task[j].val)
              THEN Append(withdrawableMinipools, task[j].val)
              ELSE withdrawableMinipools
         /\ task' = [task EXCEPT ![j].st = "done"]
    /\ mi' = mi + 1
    /\ UNCHANGED <<pc, minipoolAddresses, response, withdrawMinipoolAddresses,
                   withdrawErrors, output, calls, result>>

\* A variant that drops the error and goes on with the next iteration.
ReceiveErrorIgnored ==
    /\ pc = "collect"
    /\ mi <= N
    /\ \E j \in DOMAIN task :
         /\ task[j].st = "sendErr"
         /\ task' = [task EXCEPT ![j].st = "done"]
    /\ mi' = mi + 1
    /\ UNCHANGED <<pc, minipoolAddresses, received, withdrawableMinipools, response,
                   withdrawMinipoolAddresses, withdrawErrors, output, calls, result>>

\* case err := <-nodeStatusErrorChannel: return err
ReceiveError ==
    /\ pc = "collect"
    /\ mi <= N
    /\ \E j \in DOMAIN task :
         /\ task[j].st = "sendErr"
         /\ task' = [task EXCEPT ![j].st = "done"]
         /\ Return(Error(<<task[j].err>>))
    /\ UNCHANGED <<minipoolAddresses, mi, received, withdrawableMinipools, response,
                   withdrawMinipoolAddresses, withdrawErrors, output, calls>>

\* A variant whose receive loop stops one iteration early.
FilterDoneEarly ==
    /\ pc = "collect"
    /\ mi > N - 1
    /\ IF Len(withdrawableMinipools) = 0
       THEN /\ output' = Append(output, MsgNoneAvailable)
            /\ Return(Nil)
       ELSE /\ pc' = "prompt"
            /\ UNCHANGED <<output, result>>
    /\ UNCHANGED <<minipoolAddresses, task, mi, received, withdrawableMinipools, response,
                   withdrawMinipoolAddresses, withdrawErrors, calls>>

\* A variant that prompts even when no minipool is withdrawable.
FilterDoneNoCancel ==
    /\ pc = "collect"
    /\ mi > N
    /\ pc' = "prompt"
    /\ UNCHANGED <<minipoolAddresses, task, mi, received, withdrawableMinipools, response,
                   withdrawMinipoolAddresses, withdrawErrors, output, calls, result>>

\* The receive loop is over: cancel if no minipools are withdrawable,
\* otherwise build the prompt and call cliutils.Prompt.
FilterDone ==
    /\ pc = "collect"
    /\ mi > N
    /\ IF Len(withdrawableMinipools) = 0
       THEN /\ output' = Append(output, MsgNoneAvailable)
            /\ Return(Nil)
       ELSE /\ pc' = "prompt"
            /\ UNCHANGED <<output, result>>
    /\ UNCHANGED <<minipoolAddresses, task, mi, received, withdrawableMinipools, response,
                   withdrawMinipoolAddresses, withdrawErrors, calls>>

----------------------------------------------------------------------------
\* Selection phase

Rejects == Len(SelectSeq(output, LAMBDA l : l = MsgIncorrect))

\* cliutils.Prompt prints the prompt ...
PromptShow ==
    /\ pc = "prompt"
    /\ output' = Append(output, MsgPrompt)
    /\ pc' = "read"
    /\ UNCHANGED <<minipoolAddresses, task, mi, received, withdrawableMinipools, response,
                   withdrawMinipoolAddresses, withdrawErrors, calls, result>>

\* ... reads a line that does not match the pattern, prints the hint and
\* reads again ...
PromptReject ==
    /\ pc = "read"
    /\ Rejects < MaxRejects
    /\ \E r \in Responses : ~MatchesPattern(withdrawableMinipools, r)
    /\ output' = Append(output, MsgIncorrect)
    /\ UNCHANGED <<pc, minipoolAddresses, task, mi, received, withdrawableMinipools,
                   response, withdrawMinipoolAddresses, withdrawErrors, calls, result>>

\* ... and returns the first line that matches.
PromptAccept ==
    /\ pc = "read"
    /\ \E r \in Responses :
         /\ MatchesPattern(withdrawableMinipools, r)
         /\ response' = r
    /\ pc' = "resolve"
    /\ UNCHANGED <<minipoolAddresses, task, mi, received, withdrawableMinipools,
                   withdrawMinipoolAddresses, withdrawErrors, output, calls, result>>

\* A variant without the cancel: an empty list runs the loop zero times.
ResolveSelectionNoCancel ==
    /\ pc = "resolve"
    /\ IF SelectionPanics(withdrawableMinipools, response)
       THEN /\ Return(Panic)
            /\ UNCHANGED <<withdrawMinipoolAddresses, withdrawErrors, mi>>
       ELSE /\ withdrawMinipoolAddresses' = SelectAddresses(withdrawableMinipools, response)
            /\ withdrawErrors' = <<ErrHeader>>
            /\ mi' = 1
            /\ IF Len(withdrawMinipoolAddresses') = 0
               THEN Return(Nil)
               ELSE /\ pc' = "transactor"
                    /\ UNCHANGED result
    /\ UNCHANGED <<minipoolAddresses, task, received, withdrawableMinipools, response,
                   output, calls>>

\* Get addresses of minipools to withdraw; cancel if there are none.
ResolveSelection ==
    /\ pc = "resolve"
    /\ IF SelectionPanics(withdrawableMinipools, response)
       THEN /\ Return(Panic)
            /\ UNCHANGED <<withdrawMinipoolAddresses, withdrawErrors, output, mi>>
       ELSE /\ withdrawMinipoolAddresses' = SelectAddresses(withdrawableMinipools, response)
            /\ IF Len(withdrawMinipoolAddresses') = 0
               THEN /\ output' = Append(output, MsgNoneToWithdraw)
                    /\ Return(Nil)
                    /\ UNCHANGED <<withdrawErrors, mi>>
               ELSE /\ withdrawErrors' = <<ErrHeader>>
                    /\ mi' = 1
                    /\ pc' = "transactor"
                    /\ UNCHANGED <<output, result>>
    /\ UNCHANGED <<minipoolAddresses, task, received, withdrawableMinipools, response,
                   calls>>

----------------------------------------------------------------------------
\* Withdrawal loop

minipoolAddress == withdrawMinipoolAddresses[mi]

Call(op, res) == [op |-> op, addr |-> minipoolAddress, res |-> res]

\* The condition of the final return.
Failed(errors) == Len(errors) > 1

\* A variant that reports the first failure only.
OnlyFirstError(errors) == Error(SubSeq(errors, 1, 2))

\* The value of the final return when it is an error.
FailureReport(errors) == Error(errors)

\* A variant in which the first iteration that ends also ends the loop.
AbortLoop(errors) ==
    /\ mi' = mi + 1
    /\ Return(IF Failed(errors) THEN FailureReport(errors) ELSE Nil)

\* The end of one iteration: mi++, then the loop condition; when it fails,
\* the return after the loop.  errors is withdrawErrors after the iteration.
NextAddress(errors) ==
    /\ mi' = mi + 1
    /\ IF mi + 1 <= withdrawMinipoolCount
       THEN /\ pc' = "transactor"
            /\ UNCHANGED result
       ELSE Return(IF Failed(errors) THEN FailureReport(errors) ELSE Nil)

\* A variant without the else: after a transactor error the transaction is
\* still sent.
CreateTransactorNoGate ==
    /\ pc = "transactor"
    /\ \/ /\ calls' = Append(calls, Call("transactor", "error"))
          /\ withdrawErrors' = Append(withdrawErrors, ErrTransactor(minipoolAddress))
          /\ UNCHANGED output
       \/ /\ calls' = Append(calls, Call("transactor", "ok"))
          /\ output' = Append(output, MsgWithdrawing(minipoolAddress))
          /\ UNCHANGED withdrawErrors
    /\ pc' = "send"
    /\ UNCHANGED <<minipoolAddresses, task, mi, received, withdrawableMinipools, response,
                   withdrawMinipoolAddresses, result>>

\* Create transactor.
CreateTransactor ==
    /\ pc = "transactor"
    /\ \/ /\ calls' = Append(calls, Call("transactor", "error"))
          /\ withdrawErrors' = Append(withdrawErrors, ErrTransactor(minipoolAddress))
          /\ NextAddress(withdrawErrors')
          /\ UNCHANGED output
       \/ /\ calls' = Append(calls, Call("transactor", "ok"))
          /\ output' = Append(output, MsgWithdrawing(minipoolAddress))
          /\ pc' = "send"
          /\ UNCHANGED <<withdrawErrors, mi, result>>
    /\ UNCHANGED <<minipoolAddresses, task, received, withdrawableMinipools, response,
                   withdrawMinipoolAddresses>>

\* A variant in which an error of an earlier address sticks: once an error is
\* recorded, a transaction that succeeded is recorded as failed too.
SendWithdrawalSticky ==
    /\ pc = "send"
    /\ \E res \in {"error", "ok"} :
         /\ calls' = Append(calls, Call("send", res))
         /\ IF res = "error" \/ Failed(withdrawErrors)
            THEN /\ withdrawErrors' = Append(withdrawErrors, ErrWithdraw(minipoolAddress))
                 /\ NextAddress(withdrawErrors')
            ELSE /\ pc' = "events"
                 /\ UNCHANGED <<withdrawErrors, mi, result>>
    /\ UNCHANGED <<minipoolAddresses, task, received, withdrawableMinipools, response,
                   withdrawMinipoolAddresses, output>>

\* A variant that does not wait for the outcome of a transaction it sent
\* before it goes on with the next address.
SendWithdrawalAsync ==
    /\ pc = "send"
    /\ \/ /\ calls' = Append(calls, Call("send", "error"))
          /\ withdrawErrors' = Append(withdrawErrors, ErrWithdraw(minipoolAddress))
       \/ /\ calls' = Append(calls, Call("send", "ok"))
          /\ UNCHANGED withdrawErrors
    /\ NextAddress(withdrawErrors')
    /\ UNCHANGED <<minipoolAddresses, task, received, withdrawableMinipools, response,
                   withdrawMinipoolAddresses, output>>

\* Send withdrawal transaction.
SendWithdrawal ==
    /\ pc = "send"
    /\ \/ /\ calls' = Append(calls, Call("send", "error"))
          /\ withdrawErrors' = Append(withdrawErrors, ErrWithdraw(minipoolAddress))
          /\ NextAddress(withdrawErrors')
       \/ /\ calls' = Append(calls, Call("send", "ok"))
          /\ pc' = "events"
          /\ UNCHANGED <<withdrawErrors, mi, result>>
    /\ UNCHANGED <<minipoolAddresses, task, received, withdrawableMinipools, response,
                   withdrawMinipoolAddresses, output>>

\* A variant in which an event error falls through to the success line.
GetWithdrawalEventFallsThrough ==
    /\ pc = "events"
    /\ \/ /\ calls' = Append(calls, Call("events", "error"))
          /\ withdrawErrors' = Append(withdrawErrors, ErrEvent(minipoolAddress))
          /\ output' = Append(output, MsgSuccess(minipoolAddress))
       \/ /\ calls' = Append(calls, Call("events", "none"))
          /\ withdrawErrors' = Append(withdrawErrors, ErrNoEvent(minipoolAddress))
          /\ UNCHANGED output
       \/ /\ calls' = Append(calls, Call("events", "ok"))
          /\ output' = Append(output, MsgSuccess(minipoolAddress))
          /\ UNCHANGED withdrawErrors
    /\ NextAddress(withdrawErrors')
    /\ UNCHANGED <<minipoolAddresses, task, received, withdrawableMinipools, response,
                   withdrawMinipoolAddresses>>

\* Get withdrawal event and log.
GetWithdrawalEvent ==
    /\ pc = "events"
    /\ \/ /\ calls' = Append(calls, Call("events", "error"))
          /\ withdrawErrors' = Append(withdrawErrors, ErrEvent(minipoolAddress))
          /\ UNCHANGED output
       \/ /\ calls' = Append(calls, Call("events", "none"))
          /\ withdrawErrors' = Append(withdrawErrors, ErrNoEvent(minipoolAddress))
          /\ UNCHANGED output
       \/ /\ calls' = Append(calls, Call("events", "ok"))
          /\ output' = Append(output, MsgSuccess(minipoolAddress))
          /\ UNCHANGED withdrawErrors
    /\ NextAddress(withdrawErrors')
    /\ UNCHANGED <<minipoolAddresses, task, received, withdrawableMinipools, response,
                   withdrawMinipoolAddresses>>

----------------------------------------------------------------------------
Next ==
    \/ CheckWithdrawalsAllowed
    \/ GetMinipoolAddresses
    \/ LaunchStatusTasks
    \/ \E i \in DOMAIN task : TaskQuery(i)
    \/ ReceiveStatus
    \/ ReceiveError
    \/ FilterDone
    \/ PromptShow
    \/ PromptReject
    \/ PromptAccept
    \/ ResolveSelection
    \/ CreateTransactor
    \/ SendWithdrawal
    \/ GetWithdrawalEvent

Spec == Init /\ [][Next]_vars

\* Scheduling: every status query returns, so a goroutine that is running
\* gets to its send; the main goroutine, when it can receive or go on, does.
\* The prompt waits for the operator and is given no fairness.
MainStep ==
    \/ CheckWithdrawalsAllowed
    \/ GetMinipoolAddresses
    \/ LaunchStatusTasks
    \/ ReceiveStatus
    \/ ReceiveError
    \/ FilterDone

Fairness ==
    /\ \A i \in 1..MaxN : WF_vars(i \in DOMAIN task /\ TaskQuery(i))
    /\ WF_vars(MainStep)

FairSpec == Spec /\ Fairness

\* The selection on its own: the states in which cliutils.Prompt has printed
\* the menu of n withdrawable minipools (all statuses received, at most one of
\* them initialized), and from there the prompt and the resolution.
SelInit ==
    \E n \in 1..MaxMenu : \E j \in 0..n :
        LET statuses == [i \in 1..n |->
                            NodeStatus(Address(i),
                                       IF i = j THEN INITIALIZED ELSE WITHDRAWN, TRUE)]
        IN  /\ pc = "read"
            /\ minipoolAddresses = [i \in 1..n |-> Address(i)]
            /\ task = [i \in 1..n |-> [st |-> "done", val |-> statuses[i], err |-> NoAddr]]
            /\ mi = n + 1
            /\ received = statuses
            /\ withdrawableMinipools = statuses
            /\ response = NoResponse
            /\ withdrawMinipoolAddresses = <<>>
            /\ withdrawErrors = <<>>
            /\ output = <<MsgPrompt>>
            /\ calls = <<GlobalCall("getWithdrawalAllowed", "true"),
                         GlobalCall("getMinipoolAddresses", "ok")>>
            /\ result = Running

SelNext ==
    \/ PromptReject
    \/ PromptAccept
    \/ ResolveSelection

SelectionSpec == SelInit /\ [][SelNext]_vars

TypeOK ==
    /\ pc \in {"checkAllowed", "getAddresses", "launch", "collect", "prompt", "read",
               "resolve", "transactor", "send", "events", "done"}
    /\ Len(received) <= N
    /\ result.ret \in {"running", "nil", "error", "panic"}

----------------------------------------------------------------------------
\* Properties

Range(s) == {s[i] : i \in DOMAIN s}

HasCall(op, res) == \E i \in DOMAIN calls : calls[i].op = op /\ calls[i].res = res

\* The calls of the withdrawal loop.
TxCalls == SelectSeq(calls, LAMBDA c : c.op \in {"transactor", "send", "events"})

\* The status query of goroutine j returned an error.
QueryFailed(j) == task[j].err # NoAddr

\* The flow is in, or has been through, the selection phase.
InSelection ==
    \/ pc \in {"prompt", "read", "resolve", "transactor", "send", "events"}
    \/ MsgNoneAvailable \in Range(output)
    \/ MsgPrompt \in Range(output)

\* No prompt, no signer and no transaction so far.
NoAction ==
    /\ pc \notin {"prompt", "read", "resolve", "transactor", "send", "events"}
    /\ MsgPrompt \notin Range(output)
    /\ response = NoResponse
    /\ TxCalls = <<>>

\* C1: the statuses received are, position by position, the statuses that the
\* queries of the input addresses returned (input order, whatever the order
\* in which the goroutines finished); the selection phase only ever sees all
\* N of them, and a run that ends with fewer ends with an error.
C1_StatusesInInputOrder ==
    /\ Len(received) <= N
    /\ \A i \in 1..Len(received) :
         /\ received[i] = task[i].val
         /\ received[i].Address = minipoolAddresses[i]
    /\ InSelection => Len(received) = N
    /\ (pc = "done" /\ Len(received) < N) => result.ret = "error"

C1_Witness ==
    /\ pc = "prompt"
    /\ N >= 2
    /\ Len(received) = N

\* C2: a failed withdrawals-enabled query, or a failed status query, ends the
\* run with the error of a query that failed, and no prompt, signer or
\* transaction happens in that run.
C2_DiscoveryFailureFatal ==
    /\ HasCall("getWithdrawalAllowed", "error") =>
         /\ pc = "done"
         /\ result = Error(<<ErrAllowed>>)
         /\ NoAction
    /\ (\E j \in DOMAIN task : QueryFailed(j)) =>
         /\ ~InSelection
         /\ NoAction
         /\ pc = "done" =>
              /\ result.ret = "error"
              /\ \E j \in DOMAIN task :
                   /\ QueryFailed(j)
                   /\ task[j].st = "done"
                   /\ result.err = <<ErrStatus(minipoolAddresses[j])>>

C2_Witness ==
    /\ pc = "done"
    /\ result.ret = "error"
    /\ \E j \in DOMAIN task : QueryFailed(j) /\ task[j].st = "done"
    /\ \E k \in DOMAIN task : ~QueryFailed(k) /\ task[k].st = "done"

\* The attempts of the withdrawal loop: one transactor request opens each.
Attempts == SelectSeq(calls, LAMBDA c : c.op = "transactor")

AttemptedAddresses == [i \in 1..Len(Attempts) |-> Attempts[i].addr]

SendsTo(a) == {i \in DOMAIN calls : calls[i].op = "send" /\ calls[i].addr = a}

\* C3: the addresses attempted are, at every moment, a prefix of the resolved
\* list in list order (none skipped, none retried, whatever failed before),
\* and the run ends only after every address of the list was attempted once.
C3_EveryAddressAttemptedOnce ==
    /\ Len(Attempts) <= withdrawMinipoolCount
    /\ AttemptedAddresses = SubSeq(withdrawMinipoolAddresses, 1, Len(Attempts))
    /\ \A a \in Range(withdrawMinipoolAddresses) : Cardinality(SendsTo(a)) <= 1
    /\ pc = "transactor" => Len(Attempts) = mi - 1
    /\ pc \in {"send", "events"} => Len(Attempts) = mi
    /\ pc = "done" => Len(Attempts) = withdrawMinipoolCount

C3_Witness ==
    /\ pc = "done"
    /\ withdrawMinipoolCount >= 2
    /\ Attempts[1].res = "error"
    /\ Len(Attempts) = withdrawMinipoolCount

\* The withdrawal loop ran and is over.
LoopFinished == pc = "done" /\ withdrawMinipoolCount > 0

\* The calls of the withdrawal loop that failed (an empty event list included).
FailedCalls == SelectSeq(TxCalls, LAMBDA c : c.res # "ok")

SucceededAddresses == {c.addr : c \in {d \in Range(TxCalls) : d.op = "events" /\ d.res = "ok"}}

\* C4: after the loop the run fails iff some address recorded an error; the
\* report then lists every failing address, in processing order, after the
\* header, and no address that succeeded.
C4_FailedIffSomeError ==
    LoopFinished =>
        /\ result.ret \in {"nil", "error"}
        /\ result.ret = "error" <=> FailedCalls # <<>>
        /\ result.ret = "error" =>
             /\ Len(result.err) = Len(FailedCalls) + 1
             /\ result.err[1] = ErrHeader
             /\ \A i \in 1..Len(FailedCalls) : result.err[i + 1][2] = FailedCalls[i].addr
             /\ \A i \in 2..Len(result.err) : result.err[i][2] \notin SucceededAddresses

C4_Witness ==
    /\ LoopFinished
    /\ Len(FailedCalls) >= 2
    /\ result.ret = "error"

\* The calls made for address a, and whether one of them failed.
CallsOf(a) == SelectSeq(TxCalls, LAMBDA c : c.addr = a)

OwnFailure(a) == \E i \in DOMAIN CallsOf(a) : CallsOf(a)[i].res # "ok"

ErrorRecorded(a) == \E i \in DOMAIN withdrawErrors : withdrawErrors[i][2] = a

SuccessRecorded(a) == MsgSuccess(a) \in Range(output)

\* The iteration of the i-th resolved address is over.
Processed(i) ==
    \/ LoopFinished
    \/ pc \in {"transactor", "send", "events"} /\ i < mi

\* C5: the outcome of a processed address is decided by its own signer,
\* transaction and event steps alone: it has an error entry iff one of its own
\* steps failed and a success line iff none did, whatever happened to the
\* addresses before it; a failed transaction of one address leaves a later
\* address that succeeds with its success, and the run reports failure.
C5_FailuresIsolated ==
    /\ \A i \in DOMAIN withdrawMinipoolAddresses :
         Processed(i) =>
            /\ ErrorRecorded(withdrawMinipoolAddresses[i])
                 <=> OwnFailure(withdrawMinipoolAddresses[i])
            /\ SuccessRecorded(withdrawMinipoolAddresses[i])
                 <=> ~OwnFailure(withdrawMinipoolAddresses[i])
    /\ \A i \in DOMAIN calls :
         (calls[i].op = "send" /\ calls[i].res = "error") =>
            ErrWithdraw(calls[i].addr) \in Range(withdrawErrors)
    /\ (LoopFinished /\ \E a \in Range(withdrawMinipoolAddresses) : OwnFailure(a)) =>
         result.ret = "error"

C5_Witness ==
    /\ LoopFinished
    /\ result.ret = "error"
    /\ \E i, j \in DOMAIN withdrawMinipoolAddresses :
         /\ i < j
         /\ ErrWithdraw(withdrawMinipoolAddresses[i]) \in Range(withdrawErrors)
         /\ SuccessRecorded(withdrawMinipoolAddresses[j])
         /\ ~ErrorRecorded(withdrawMinipoolAddresses[j])

\* C6: when the withdrawals-enabled query returns false the run ends with
\* nil, the one "disabled" line and nothing else: no addresses fetched, no
\* status goroutine, no prompt, no signer, no transaction.
C6_DisabledExitsCleanly ==
    HasCall("getWithdrawalAllowed", "false") =>
        /\ pc = "done"
        /\ result = Nil
        /\ output = <<MsgDisabled>>
        /\ calls = <<GlobalCall("getWithdrawalAllowed", "false")>>
        /\ minipoolAddresses = <<>>
        /\ task = <<>>
        /\ withdrawErrors = <<>>
        /\ NoAction

C6_Witness ==
    /\ HasCall("getWithdrawalAllowed", "false")
    /\ MsgDisabled \in Range(output)
    /\ result.ret = "nil"

\* A status is withdrawal-eligible: its deposit exists and its state is
\* Initialized, Withdrawn or TimedOut.
Eligible(status) ==
    /\ status.DepositExists
    /\ status.Status \in {"Initialized", "Withdrawn", "TimedOut"}

\* Every status query returned a status and the receive loop took them all.
AllStatusesIn ==
    /\ HasCall("getMinipoolAddresses", "ok")
    /\ pc # "launch"
    /\ Len(received) = N

\* C7: when every status arrived and none is eligible (an empty address list
\* included) the run never prompts and never calls a signer or a transaction,
\* and it ends with nil and the one "none available" line.
C7_NoneAvailable ==
    (AllStatusesIn /\ \A i \in DOMAIN received : ~Eligible(received[i])) =>
        /\ pc \in {"collect", "done"}
        /\ NoAction
        /\ pc = "done" => (result = Nil /\ output = <<MsgNoneAvailable>>)

C7_Witness ==
    /\ pc = "done"
    /\ N >= 2
    /\ Len(received) = N
    /\ \E i \in DOMAIN received : received[i].DepositExists
    /\ \E i \in DOMAIN received : received[i].Status = "Initialized"
    /\ output = <<MsgNoneAvailable>>

\* C8: the filtered list is exactly the eligible statuses among those
\* received, in input order.
C8_FilterExact ==
    withdrawableMinipools = SelectSeq(received, Eligible)

C8_Witness ==
    /\ pc = "prompt"
    /\ Len(withdrawableMinipools) >= 1
    /\ Len(withdrawableMinipools) < Len(received)
    /\ \E i \in DOMAIN withdrawableMinipools :
         withdrawableMinipools[i].Status = "Initialized"

\* The prompt returned and the address list was resolved from the response.
Resolved == response # NoResponse /\ pc # "resolve"

IsAllToken(r) == ToLower(r) \in {<<"a">>, <<"a", "l", "l">>}

\* C9: an accepted response that is not the all-token is the decimal form of
\* some k in 1..number of filtered items, and the resolved list is exactly
\* the address of the k-th filtered item, whatever its state.
C9_IndexResolvesToKth ==
    (Resolved /\ ~IsAllToken(response)) =>
        /\ result # Panic
        /\ \E k \in 1..Len(withdrawableMinipools) :
             /\ response = Itoa(k)
             /\ withdrawMinipoolAddresses = <<withdrawableMinipools[k].Address>>

C9_Witness ==
    /\ pc = "transactor"
    /\ response = <<"2">>
    /\ Len(withdrawableMinipools) >= 2
    /\ withdrawableMinipools[2].Status = "Initialized"
    /\ withdrawMinipoolAddresses = <<withdrawableMinipools[2].Address>>

\* The filtered items whose state is Withdrawn or TimedOut.
NonInitialized(status) == status.Status \in {"Withdrawn", "TimedOut"}

\* C10: an accepted all-token, in any letter case, resolves to the addresses
\* of exactly the filtered items that are Withdrawn or TimedOut, in filtered
\* order; no Initialized item is among them.
C10_AllExcludesInitialized ==
    (Resolved /\ IsAllToken(response)) =>
        /\ result # Panic
        /\ withdrawMinipoolAddresses
             = AddressesOf(SelectSeq(withdrawableMinipools, NonInitialized))
        /\ \A i \in DOMAIN withdrawableMinipools :
             withdrawableMinipools[i].Status = "Initialized" =>
                withdrawableMinipools[i].Address \notin Range(withdrawMinipoolAddresses)

C10_Witness ==
    /\ pc = "transactor"
    /\ response = <<"A", "L", "L">>
    /\ \E i \in DOMAIN withdrawableMinipools : withdrawableMinipools[i].Status = "Initialized"
    /\ \E i \in DOMAIN withdrawableMinipools : withdrawableMinipools[i].Status = "Withdrawn"
    /\ Len(withdrawMinipoolAddresses) < Len(withdrawableMinipools)

\* C11: when the resolved list is empty (the all-token was accepted and every
\* filtered item is Initialized) the run ends with nil and the "No minipools
\* to withdraw" line as its last line, without any signer or transaction.
C11_NothingToWithdraw ==
    (Resolved /\ withdrawMinipoolCount = 0) =>
        /\ pc = "done"
        /\ result = Nil
        /\ IsAllToken(response)
        /\ \A i \in DOMAIN withdrawableMinipools :
             withdrawableMinipools[i].Status = "Initialized"
        /\ output[Len(output)] = MsgNoneToWithdraw
        /\ Cardinality({i \in DOMAIN output : output[i] = MsgNoneToWithdraw}) = 1
        /\ TxCalls = <<>>
        /\ withdrawErrors = <<>>

C11_Witness ==
    /\ Resolved
    /\ withdrawMinipoolCount = 0
    /\ Len(withdrawableMinipools) >= 2
    /\ MsgNoneToWithdraw \in Range(output)

\* A response that selects something: the all-token in any letter case, or
\* the decimal form of an index of the filtered list.
ValidSelection(r) ==
    \/ IsAllToken(r)
    \/ \E k \in 1..Len(withdrawableMinipools) : r = Itoa(k)

\* C12: a response that is neither a valid index nor the all-token is never
\* the one the prompt returns; while the prompt is still reading (a rejection
\* included) no address is resolved, no transaction attempted and nothing
\* returned, and the hint printed for a rejection is never part of an error.
C12_InvalidInputRejected ==
    /\ response # NoResponse => ValidSelection(response)
    /\ pc = "read" =>
         /\ response = NoResponse
         /\ withdrawMinipoolAddresses = <<>>
         /\ TxCalls = <<>>
         /\ result = Running
    /\ result.ret = "error" => MsgIncorrect \notin Range(result.err)
    /\ (Rejects > 0 /\ pc = "done") =>
         /\ result.ret \in {"nil", "error"}
         /\ result.ret = "error" <=> FailedCalls # <<>>

C12_Witness ==
    /\ pc = "done"
    /\ Rejects >= 1
    /\ result = Nil
    /\ TxCalls # <<>>

\* The collector returned on a failure of a status query.
ReturnedOnFailure ==
    /\ pc = "done"
    /\ result.ret = "error"
    /\ task # <<>>

\* C13: once the collector has returned on the first failure, every status
\* goroutine still outstanding eventually terminates.
C13_AbandonedTasksTerminate ==
    [](ReturnedOnFailure => <>(\A j \in DOMAIN task : task[j].st = "done"))

\* C14: with every status query returning and fair scheduling, the caller
\* always leaves the status-collection phase.
C14_CollectionTerminates == (pc = "collect") ~> (pc # "collect")

C14_Witness ==
    /\ pc = "collect"
    /\ mi < N
    /\ task[mi].st = "run"
    /\ \E j \in DOMAIN task : j > mi /\ task[j].st \in {"sendOk", "sendErr"}

\* A call that settles the outcome of its address: a failure, or the event
\* lookup of a confirmed transaction.
Terminal(c) == c.res # "ok" \/ c.op = "events"

LastTxCall == TxCalls[Len(TxCalls)]

\* C15: the calls of the withdrawal loop are strictly sequential: the calls of
\* one address are contiguous, and a transactor is requested for the next
\* address only after the outcome of the previous one is settled; nothing is
\* left in progress when the next address starts or the run ends.
C15_StrictlySequential ==
    /\ TxCalls # <<>> => TxCalls[1].op = "transactor"
    /\ \A k \in 2..Len(TxCalls) :
         IF TxCalls[k].op = "transactor"
         THEN /\ Terminal(TxCalls[k - 1])
              /\ TxCalls[k - 1].addr # TxCalls[k].addr
         ELSE /\ ~Terminal(TxCalls[k - 1])
              /\ TxCalls[k - 1].addr = TxCalls[k].addr
    /\ (pc \in {"transactor", "done"} /\ TxCalls # <<>>) => Terminal(LastTxCall)
    /\ pc \in {"send", "events"} =>
         /\ ~Terminal(LastTxCall)
         /\ LastTxCall.addr = minipoolAddress

C15_Witness ==
    /\ pc = "transactor"
    /\ mi = 2
    /\ LastTxCall = [op |-> "events", addr |-> withdrawMinipoolAddresses[1], res |-> "ok"]

ErrorLinesFor(a) == {i \in DOMAIN withdrawErrors : withdrawErrors[i][2] = a}

SuccessLinesFor(a) == {i \in DOMAIN output : output[i] = MsgSuccess(a)}

SuccessLines == {i \in DOMAIN output : \E a \in Range(withdrawMinipoolAddresses) :
                                          output[i] = MsgSuccess(a)}

\* C16: every processed address has exactly one outcome, an error line or a
\* success line, never both and never neither; it is the error line iff one
\* of its own steps failed; after the loop the error lines and the success
\* lines together number the selected addresses.
C16_ExactlyOneOutcome ==
    /\ \A i \in DOMAIN withdrawMinipoolAddresses :
         Processed(i) =>
            /\ Cardinality(ErrorLinesFor(withdrawMinipoolAddresses[i]))
                 + Cardinality(SuccessLinesFor(withdrawMinipoolAddresses[i])) = 1
            /\ Cardinality(ErrorLinesFor(withdrawMinipoolAddresses[i])) = 1
                 <=> OwnFailure(withdrawMinipoolAddresses[i])
    /\ LoopFinished =>
         (Len(withdrawErrors) - 1) + Cardinality(SuccessLines) = withdrawMinipoolCount

C16_Witness ==
    /\ LoopFinished
    /\ withdrawMinipoolCount >= 2
    /\ Len(withdrawErrors) = 2
    /\ Cardinality(SuccessLines) >= 1

\* C17: within one address a transaction is sent only right after its
\* transactor was created, and the event is looked up only right after its
\* transaction was confirmed; a transactor error leaves the address with that
\* error and no transaction; an event error or an empty event list leaves it
\* with an event error, one transaction and no success line; the loop still
\* goes through every address.
C17_StepsGated ==
    /\ \A k \in DOMAIN TxCalls :
         /\ TxCalls[k].op = "send" =>
              /\ k > 1
              /\ TxCalls[k - 1] = [op |-> "transactor", addr |-> TxCalls[k].addr, res |-> "ok"]
         /\ TxCalls[k].op = "events" =>
              /\ k > 1
              /\ TxCalls[k - 1] = [op |-> "send", addr |-> TxCalls[k].addr, res |-> "ok"]
         /\ (TxCalls[k].op = "transactor" /\ TxCalls[k].res = "error") =>
              /\ ErrTransactor(TxCalls[k].addr) \in Range(withdrawErrors)
              /\ SendsTo(TxCalls[k].addr) = {}
         /\ (TxCalls[k].op = "events" /\ TxCalls[k].res \in {"error", "none"}) =>
              /\ (IF TxCalls[k].res = "error"
                  THEN ErrEvent(TxCalls[k].addr)
                  ELSE ErrNoEvent(TxCalls[k].addr)) \in Range(withdrawErrors)
              /\ Cardinality(SendsTo(TxCalls[k].addr)) = 1
              /\ ~SuccessRecorded(TxCalls[k].addr)
    /\ pc = "done" => Len(Attempts) = withdrawMinipoolCount

C17_Witness ==
    /\ LoopFinished
    /\ withdrawMinipoolCount >= 2
    /\ \E k \in DOMAIN TxCalls :
         /\ TxCalls[k] = [op |-> "events", addr |-> withdrawMinipoolAddresses[1], res |-> "none"]
         /\ k < Len(TxCalls)
    /\ \E k \in DOMAIN TxCalls :
         TxCalls[k] = [op |-> "transactor", addr |-> withdrawMinipoolAddresses[2], res |-> "error"]

\* C18: every address for which a transactor is requested or a transaction
\* sent is an address of the input list whose received status is eligible,
\* and an Initialized one only when the response was its index, not the
\* all-token.
C18_OnlyEligibleAddresses ==
    \A k \in DOMAIN TxCalls :
        \E i \in DOMAIN received :
            /\ minipoolAddresses[i] = TxCalls[k].addr
            /\ received[i].Address = TxCalls[k].addr
            /\ Eligible(received[i])
            /\ received[i].Status = "Initialized" =>
                 /\ ~IsAllToken(response)
                 /\ \E j \in DOMAIN withdrawableMinipools :
                      /\ withdrawableMinipools[j] = received[i]
                      /\ response = Itoa(j)

C18_Witness ==
    /\ N >= 2
    /\ \E k \in DOMAIN TxCalls :
         /\ TxCalls[k].op = "send"
         /\ TxCalls[k].addr = minipoolAddresses[2]
         /\ received[2].Status = "Initialized"
    /\ ~Eligible(received[1])

\* C19: a response the prompt returns is non-empty and is either an all-token
\* or the decimal form of a number from 1 to the size of the filtered list,
\* never both; the test of its first character takes the all branch exactly
\* for the all-tokens, and in the numeric branch the parsed index is within
\* the list, so neither response[:1] nor the indexing goes out of bounds.
C19_AcceptedResponseInBounds ==
    response # NoResponse =>
        /\ Len(response) >= 1
        /\ IsAllToken(response) \/ \E k \in 1..Len(withdrawableMinipools) : response = Itoa(k)
        /\ ~(IsAllToken(response) /\ \E k \in 1..Len(withdrawableMinipools) : response = Itoa(k))
        /\ IsAllResponse(response) <=> IsAllToken(response)
        /\ ~IsAllResponse(response) =>
             /\ Atoi(response) \in 1..Len(withdrawableMinipools)
             /\ Itoa(Atoi(response)) = response
        /\ ~SelectionPanics(withdrawableMinipools, response)
        /\ result # Panic

C19_Witness ==
    /\ pc = "transactor"
    /\ response = <<"1", "0">>
    /\ withdrawMinipoolAddresses = <<withdrawableMinipools[10].Address>>

\* Every goroutine has sent its status and the send was received.
AllSendsReceived ==
    \A j \in DOMAIN task :
        /\ task[j].st = "done"
        /\ ~QueryFailed(j)
        /\ received[j] = task[j].val

\* A goroutine that has left GetNodeStatus never queries or sends again, and
\* its status send completes only in iteration j of the receive loop, which
\* receives from channel j.
OneSendOnOwnChannel ==
    \A j \in DOMAIN task :
        /\ task[j].st # "run" => task'[j].st # "run"
        /\ task[j].st = "done" => task'[j] = task[j]
        /\ (task[j].st = "sendOk" /\ task'[j].st # "sendOk") =>
             /\ task'[j].st = "done"
             /\ mi = j
             /\ mi' = j + 1
             /\ received' = Append(received, task[j].val)

\* C20: when the selection phase begins every one of the N goroutines has
\* terminated, none is blocked on a send, and each has sent exactly once, on
\* its own channel.
C20_NoTaskBlockedAtSelection ==
    /\ [](InSelection => (Len(task) = N /\ AllSendsReceived))
    /\ [][OneSendOnOwnChannel]_vars

C20_Witness ==
    /\ pc = "collect"
    /\ mi > N
    /\ N >= 2
    /\ AllSendsReceived

====
